---- MODULE Spec2Model ----
(***************************************************************************)
(* ZooKeeper proxy decoder (decoder.cc): the message decoder, the inflight *)
(* request table and the per-direction stream reassembler, over concrete   *)
(* big-endian bytes.                                                       *)
(***************************************************************************)
EXTENDS Integers, Sequences, FiniteSets, TLC

VARIABLES
  requests_by_xid_,         \* inflight table: xid -> [opcode, start_time]
  zk_filter_read_buffer_,   \* residual bytes of the request direction
  zk_filter_write_buffer_,  \* residual bytes of the response direction
  current_,                 \* helper_'s per-message cursor
  now,                      \* time_source_.monotonicTime()
  net,                      \* the burst of bytes the network is delivering
  call                      \* the last onData / onWrite call: input and effects

vars == <<requests_by_xid_, zk_filter_read_buffer_, zk_filter_write_buffer_,
          current_, now, net, call>>

(***************************************************************************)
(* Bounds of the model.                                                    *)
(***************************************************************************)
\* configured max_packet_bytes (DecoderImpl::max_packet_bytes_)
max_packet_bytes_ == 64
\* the monotonic clock runs from 0 to MaxTime
MaxTime == 1
\* frames written to the socket in one burst
MaxFrames == 2
\* chunks the network cuts one burst into
MaxChunks == 2

(***************************************************************************)
(* Constants of decoder.cc.                                                *)
(***************************************************************************)
BOOL_LENGTH == 1
INT_LENGTH == 4
LONG_LENGTH == 8
XID_LENGTH == 4
OPCODE_LENGTH == 4
ZXID_LENGTH == 8
TIMEOUT_LENGTH == 4
SESSION_LENGTH == 8
MULTI_HEADER_LENGTH == 9
PROTOCOL_VERSION_LENGTH == 4
SERVER_HEADER_LENGTH == 16

\* enum class XidCodes
XidCodes == [ConnectXid |-> 0, WatchXid |-> -1, PingXid |-> -2, AuthXid |-> -4,
             SetWatchesXid |-> -8]

\* enum class OpCodes
OpCodes == [Connect |-> 0, Create |-> 1, Delete |-> 2, Exists |-> 3, GetData |-> 4,
            SetData |-> 5, GetAcl |-> 6, SetAcl |-> 7, GetChildren |-> 8, Sync |-> 9,
            Ping |-> 11, GetChildren2 |-> 12, Check |-> 13, Multi |-> 14,
            Create2 |-> 15, Reconfig |-> 16, CheckWatches |-> 17,
            RemoveWatches |-> 18, CreateContainer |-> 19, CreateTtl |-> 21,
            Close |-> -11, SetAuth |-> 100, SetWatches |-> 101,
            GetEphemerals |-> 103, GetAllChildrenNumber |-> 104]

READ == "READ"
WRITE == "WRITE"
Continue == "Continue"

\* what() of the exception in flight; NoError when none is
NoError == "none"
TooSmall == "Packet is too small"
TooBig == "Packet is too big"
XidNotFound == "xid not found"
UnknownOpcode == "Unknown opcode"
UnknownNested == "Unknown opcode within a transaction"
Underflow == "buffer underflow"
BeyondMax == "read beyond max length"

Min(a, b) == IF a < b THEN a ELSE b

(***************************************************************************)
(* Big-endian 32-bit two's complement, as Buffer::peekBEInt<int32_t>.      *)
(***************************************************************************)
BE32(data, off) ==
  LET b0 == data[off + 1]
      b1 == data[off + 2]
      b2 == data[off + 3]
      b3 == data[off + 4]
  IN IF b0 >= 128
     THEN -((((255 - b0) * 256 + (255 - b1)) * 256 + (255 - b2)) * 256 + (255 - b3)) - 1
     ELSE ((b0 * 256 + b1) * 256 + b2) * 256 + b3

(***************************************************************************)
(* The decoding state threaded through the parsers:                        *)
(*   off   the caller's offset          cur  helper_'s cursor              *)
(*   err   the exception in flight      val  the value last read           *)
(*   cbs   callbacks emitted so far     reqs requests_by_xid_              *)
(*   len, full   locals of the pre-scan (len, has_full_packets)            *)
(* A statement run in a state with an exception in flight does nothing.    *)
(***************************************************************************)
Ok(p) == p.err = NoError
Throw(p, what) == IF Ok(p) THEN [p EXCEPT !.err = what] ELSE p
Emit(p, cb) == IF Ok(p) THEN [p EXCEPT !.cbs = Append(@, cb)] ELSE p
Advance(p, n) == IF Ok(p) THEN [p EXCEPT !.off = @ + n] ELSE p
SetVal(p, v) == IF Ok(p) THEN [p EXCEPT !.val = v] ELSE p
\* an iteration of the loop named starts at the offset: p.trail lists them
Iterate(p, loop) == IF Ok(p) THEN [p EXCEPT !.trail = Append(@, <<loop, p.off>>)] ELSE p

\* statement sequencing: x is evaluated once and F runs on its value
Then(x, F(_)) == CHOOSE r \in {F(q) : q \in {x}} : TRUE

(***************************************************************************)
(* BufferHelper (helper_): the byte cursor.  Every read adds its size to   *)
(* the cursor and fails once the cursor exceeds the allowed max length;    *)
(* reset() zeroes the cursor.  The cursor is kept at most one past the     *)
(* ceiling: every value beyond the ceiling behaves alike.                  *)
(***************************************************************************)
ensureMaxLen(p, size) ==
  IF ~Ok(p) THEN p
  ELSE IF p.cur + size > max_packet_bytes_
       THEN [p EXCEPT !.cur = max_packet_bytes_ + 1, !.err = BeyondMax]
       ELSE [p EXCEPT !.cur = @ + size]

\* Buffer::peekInt throws when fewer than size bytes follow the offset
ensureBytes(data, p, size) ==
  IF Ok(p) /\ Len(data) < p.off + size THEN Throw(p, Underflow) ELSE p

peekInt32(data, p) ==
  Then(ensureBytes(data, ensureMaxLen(p, INT_LENGTH), INT_LENGTH), LAMBDA q :
  Advance(SetVal(q, BE32(data, q.off)), INT_LENGTH))

\* an int64 is carried as its two 32-bit words
peekInt64(data, p) ==
  Then(ensureBytes(data, ensureMaxLen(p, LONG_LENGTH), LONG_LENGTH), LAMBDA q :
  Advance(SetVal(q, <<BE32(data, q.off), BE32(data, q.off + 4)>>), LONG_LENGTH))

peekBool(data, p) ==
  Then(ensureBytes(data, ensureMaxLen(p, BOOL_LENGTH), BOOL_LENGTH), LAMBDA q :
  Advance(SetVal(q, data[q.off + 1] # 0), BOOL_LENGTH))

peekString(data, p) ==
  Then(peekInt32(data, p), LAMBDA q :
  IF ~Ok(q) THEN q
  ELSE IF q.val <= 0 THEN SetVal(q, <<>>)
  ELSE Then(ensureMaxLen(ensureBytes(data, q, q.val), q.val), LAMBDA r :
       Advance(SetVal(r, SubSeq(data, q.off + 1, q.off + q.val)), q.val)))

skip(len, p) ==
  IF ~Ok(p) THEN p
  ELSE [p EXCEPT !.off = @ + len, !.cur = Min(@ + len, max_packet_bytes_ + 1)]

reset(p) == [p EXCEPT !.cur = 0]

(***************************************************************************)
(* DecoderImpl: length checks and the skip helpers.                        *)
(***************************************************************************)
ensureMinLength(p, len, minlen) ==
  IF Ok(p) /\ len < minlen THEN Throw(p, TooSmall) ELSE p

\* static_cast<uint32_t>(len) > max_packet_bytes_: a negative len is a huge uint32
\* mutant: a packet of exactly max_packet_bytes_ is rejected
ensureMaxLength_Inclusive(p, len) ==
  IF Ok(p) /\ (len < 0 \/ len >= max_packet_bytes_) THEN Throw(p, TooBig) ELSE p

ensureMaxLength(p, len) ==
  IF Ok(p) /\ (len < 0 \/ len > max_packet_bytes_) THEN Throw(p, TooBig) ELSE p

\* mutant: the string is looked at and the offset put back
skipString_PeekOnly(data, p) ==
  Then(peekInt32(data, p), LAMBDA q :
  IF ~Ok(q) THEN q ELSE [q EXCEPT !.off = p.off])

skipString(data, p) ==
  Then(peekInt32(data, p), LAMBDA q :
  IF ~Ok(q) \/ q.val < 0 THEN q ELSE skip(q.val, q))

RECURSIVE skipStringsLoop(_, _, _)
skipStringsLoop(data, p, n) ==
  IF n <= 0 \/ ~Ok(p) THEN p
  ELSE Then(skipString(data, Iterate(p, "skipStrings")), LAMBDA q :
       skipStringsLoop(data, q, n - 1))

skipStrings(data, p) ==
  Then(peekInt32(data, p), LAMBDA q : skipStringsLoop(data, q, q.val))

RECURSIVE skipAclsLoop(_, _, _)
skipAclsLoop(data, p, n) ==
  IF n <= 0 \/ ~Ok(p) THEN p
  ELSE Then(peekInt32(data, Iterate(p, "skipAcls")), LAMBDA p1 :
       Then(skipString(data, p1), LAMBDA p2 :
       Then(skipString(data, p2), LAMBDA p3 :
       skipAclsLoop(data, p3, n - 1))))

skipAcls(data, p) ==
  Then(peekInt32(data, p), LAMBDA q : skipAclsLoop(data, q, q.val))

maybeReadBool(data, p) ==
  IF ~Ok(p) THEN p
  ELSE IF Len(data) >= p.off + 1 THEN peekBool(data, p)
  ELSE SetVal(p, FALSE)

(***************************************************************************)
(* Request parsers.  Each checks the minimum length, reads its fields and  *)
(* invokes its callback last.                                              *)
(***************************************************************************)
parseConnect(data, p, len) ==
  Then(ensureMinLength(p, len, XID_LENGTH + ZXID_LENGTH + TIMEOUT_LENGTH
                                + SESSION_LENGTH + INT_LENGTH), LAMBDA p1 :
  Then(Advance(p1, ZXID_LENGTH + TIMEOUT_LENGTH + SESSION_LENGTH), LAMBDA p2 :
  Then(skipString(data, p2), LAMBDA p3 :
  Then(maybeReadBool(data, p3), LAMBDA p4 :
  Emit(p4, <<"onConnect", p4.val>>)))))

parseAuthRequest(data, p, len) ==
  Then(ensureMinLength(p, len, XID_LENGTH + OPCODE_LENGTH + INT_LENGTH + INT_LENGTH
                                + INT_LENGTH), LAMBDA p1 :
  Then(Advance(p1, OPCODE_LENGTH + INT_LENGTH), LAMBDA p2 :
  Then(peekString(data, p2), LAMBDA p3 :
  Then(skipString(data, p3), LAMBDA p4 :
  Emit(p4, <<"onAuthRequest", p3.val>>)))))

parseGetDataRequest(data, p, len) ==
  Then(ensureMinLength(p, len, XID_LENGTH + OPCODE_LENGTH + INT_LENGTH + BOOL_LENGTH),
       LAMBDA p1 :
  Then(peekString(data, p1), LAMBDA p2 :
  Then(peekBool(data, p2), LAMBDA p3 :
  Emit(p3, <<"onGetDataRequest", p2.val, p3.val>>))))

parseCreateRequest(data, p, len, opcode) ==
  Then(ensureMinLength(p, len, XID_LENGTH + OPCODE_LENGTH + (3 * INT_LENGTH)), LAMBDA p1 :
  Then(peekString(data, p1), LAMBDA p2 :
  Then(skipString(data, p2), LAMBDA p3 :
  Then(skipAcls(data, p3), LAMBDA p4 :
  Then(peekInt32(data, p4), LAMBDA p5 :
  Emit(p5, <<"onCreateRequest", p2.val, p5.val, opcode>>))))))

parseSetRequest(data, p, len) ==
  Then(ensureMinLength(p, len, XID_LENGTH + OPCODE_LENGTH + (3 * INT_LENGTH)), LAMBDA p1 :
  Then(peekString(data, p1), LAMBDA p2 :
  Then(skipString(data, p2), LAMBDA p3 :
  Then(peekInt32(data, p3), LAMBDA p4 :
  Emit(p4, <<"onSetRequest", p2.val>>)))))

parseGetChildrenRequest(data, p, len, two) ==
  Then(ensureMinLength(p, len, XID_LENGTH + OPCODE_LENGTH + INT_LENGTH + BOOL_LENGTH),
       LAMBDA p1 :
  Then(peekString(data, p1), LAMBDA p2 :
  Then(peekBool(data, p2), LAMBDA p3 :
  Emit(p3, <<"onGetChildrenRequest", p2.val, p3.val, two>>))))

parseDeleteRequest(data, p, len) ==
  Then(ensureMinLength(p, len, XID_LENGTH + OPCODE_LENGTH + (2 * INT_LENGTH)), LAMBDA p1 :
  Then(peekString(data, p1), LAMBDA p2 :
  Then(peekInt32(data, p2), LAMBDA p3 :
  Emit(p3, <<"onDeleteRequest", p2.val, p3.val>>))))

parseExistsRequest(data, p, len) ==
  Then(ensureMinLength(p, len, XID_LENGTH + OPCODE_LENGTH + INT_LENGTH + BOOL_LENGTH),
       LAMBDA p1 :
  Then(peekString(data, p1), LAMBDA p2 :
  Then(peekBool(data, p2), LAMBDA p3 :
  Emit(p3, <<"onExistsRequest", p2.val, p3.val>>))))

parseGetAclRequest(data, p, len) ==
  Then(ensureMinLength(p, len, XID_LENGTH + OPCODE_LENGTH + INT_LENGTH), LAMBDA p1 :
  Then(peekString(data, p1), LAMBDA p2 :
  Emit(p2, <<"onGetAclRequest", p2.val>>)))

parseSetAclRequest(data, p, len) ==
  Then(ensureMinLength(p, len, XID_LENGTH + OPCODE_LENGTH + (2 * INT_LENGTH)), LAMBDA p1 :
  Then(peekString(data, p1), LAMBDA p2 :
  Then(skipAcls(data, p2), LAMBDA p3 :
  Then(peekInt32(data, p3), LAMBDA p4 :
  Emit(p4, <<"onSetAclRequest", p2.val, p4.val>>)))))

\* returns the path in val; the caller invokes the callback
pathOnlyRequest(data, p, len) ==
  Then(ensureMinLength(p, len, XID_LENGTH + OPCODE_LENGTH + INT_LENGTH), LAMBDA p1 :
  peekString(data, p1))

parseCheckRequest(data, p, len) ==
  Then(ensureMinLength(p, len, 2 * INT_LENGTH), LAMBDA p1 :
  Then(peekString(data, p1), LAMBDA p2 :
  Then(peekInt32(data, p2), LAMBDA p3 :
  Emit(p3, <<"onCheckRequest", p2.val, p3.val>>))))

\* the while (true) loop over the sub-operation headers
RECURSIVE parseMultiLoop(_, _, _)
parseMultiLoop(data, p, len) ==
  IF ~Ok(p) THEN p
  ELSE Then(peekInt32(data, Iterate(p, "parseMultiRequest")), LAMBDA h1 :
       Then(peekBool(data, h1), LAMBDA h2 :
       Then(peekInt32(data, h2), LAMBDA h3 :
       IF ~Ok(h3) \/ h2.val THEN h3
       ELSE IF h1.val = OpCodes.Create
            THEN Then(parseCreateRequest(data, h3, len, OpCodes.Create), LAMBDA b :
                 parseMultiLoop(data, b, len))
       ELSE IF h1.val = OpCodes.SetData
            THEN Then(parseSetRequest(data, h3, len), LAMBDA b :
                 parseMultiLoop(data, b, len))
       ELSE IF h1.val = OpCodes.Check
            THEN Then(parseCheckRequest(data, h3, len), LAMBDA b :
                 parseMultiLoop(data, b, len))
       ELSE Throw(h3, UnknownNested))))

\* mutant: onMultiRequest is invoked before the sub-operations are read
parseMultiRequest_AnnounceFirst(data, p, len) ==
  Then(ensureMinLength(p, len, XID_LENGTH + OPCODE_LENGTH + MULTI_HEADER_LENGTH),
       LAMBDA p1 :
  Then(Emit(p1, <<"onMultiRequest">>), LAMBDA p2 :
  parseMultiLoop(data, p2, len)))

parseMultiRequest(data, p, len) ==
  Then(ensureMinLength(p, len, XID_LENGTH + OPCODE_LENGTH + MULTI_HEADER_LENGTH),
       LAMBDA p1 :
  Then(parseMultiLoop(data, p1, len), LAMBDA p2 :
  Emit(p2, <<"onMultiRequest">>)))

parseReconfigRequest(data, p, len) ==
  Then(ensureMinLength(p, len, XID_LENGTH + OPCODE_LENGTH + (3 * INT_LENGTH)
                                + LONG_LENGTH), LAMBDA p1 :
  Then(skipString(data, p1), LAMBDA p2 :
  Then(skipString(data, p2), LAMBDA p3 :
  Then(skipString(data, p3), LAMBDA p4 :
  Then(peekInt64(data, p4), LAMBDA p5 :
  Emit(p5, <<"onReconfigRequest">>))))))

parseSetWatchesRequest(data, p, len) ==
  Then(ensureMinLength(p, len, XID_LENGTH + OPCODE_LENGTH + (3 * INT_LENGTH)), LAMBDA p1 :
  Then(peekInt64(data, p1), LAMBDA p2 :
  Then(skipStrings(data, p2), LAMBDA p3 :
  Then(skipStrings(data, p3), LAMBDA p4 :
  Then(skipStrings(data, p4), LAMBDA p5 :
  Emit(p5, <<"onSetWatchesRequest">>))))))

parseXWatchesRequest(data, p, len, opcode) ==
  Then(ensureMinLength(p, len, XID_LENGTH + OPCODE_LENGTH + (2 * INT_LENGTH)), LAMBDA p1 :
  Then(peekString(data, p1), LAMBDA p2 :
  Then(peekInt32(data, p2), LAMBDA p3 :
  IF opcode = OpCodes.CheckWatches
  THEN Emit(p3, <<"onCheckWatchesRequest", p2.val, p3.val>>)
  ELSE Emit(p3, <<"onRemoveWatchesRequest", p2.val, p3.val>>))))

(***************************************************************************)
(* requests_by_xid_[xid] = {opcode, start_time}                            *)
(***************************************************************************)
\* mutant: an entry that is already pending is kept (emplace instead of assignment)
Record_KeepPending(p, xid, opcode, start_time) ==
  IF ~Ok(p) \/ xid \in DOMAIN p.reqs THEN p
  ELSE [p EXCEPT !.reqs = [x \in (DOMAIN @) \cup {xid} |->
                             IF x = xid THEN [opcode |-> opcode, start_time |-> start_time]
                             ELSE @[x]]]

Record(p, xid, opcode, start_time) ==
  IF ~Ok(p) THEN p
  ELSE [p EXCEPT !.reqs = [x \in (DOMAIN @) \cup {xid} |->
                             IF x = xid THEN [opcode |-> opcode, start_time |-> start_time]
                             ELSE @[x]]]

\* requests_by_xid_.erase(it)
Erase(p, xid) ==
  IF ~Ok(p) THEN p
  ELSE [p EXCEPT !.reqs = [x \in (DOMAIN @) \ {xid} |-> @[x]]]

(***************************************************************************)
(* The switch over the opcode of a data request.                           *)
(***************************************************************************)
dispatchOpcode(data, p, len, oc) ==
  IF oc = OpCodes.GetData THEN parseGetDataRequest(data, p, len)
  ELSE IF oc \in {OpCodes.Create, OpCodes.Create2, OpCodes.CreateContainer,
                  OpCodes.CreateTtl}
       THEN parseCreateRequest(data, p, len, oc)
  ELSE IF oc = OpCodes.SetData THEN parseSetRequest(data, p, len)
  ELSE IF oc = OpCodes.GetChildren THEN parseGetChildrenRequest(data, p, len, FALSE)
  ELSE IF oc = OpCodes.GetChildren2 THEN parseGetChildrenRequest(data, p, len, TRUE)
  ELSE IF oc = OpCodes.Delete THEN parseDeleteRequest(data, p, len)
  ELSE IF oc = OpCodes.Exists THEN parseExistsRequest(data, p, len)
  ELSE IF oc = OpCodes.GetAcl THEN parseGetAclRequest(data, p, len)
  ELSE IF oc = OpCodes.SetAcl THEN parseSetAclRequest(data, p, len)
  ELSE IF oc = OpCodes.Sync
       THEN Then(pathOnlyRequest(data, p, len), LAMBDA q :
            Emit(q, <<"onSyncRequest", q.val>>))
  ELSE IF oc = OpCodes.Check THEN parseCheckRequest(data, p, len)
  ELSE IF oc = OpCodes.Multi THEN parseMultiRequest(data, p, len)
  ELSE IF oc = OpCodes.Reconfig THEN parseReconfigRequest(data, p, len)
  ELSE IF oc = OpCodes.SetWatches THEN parseSetWatchesRequest(data, p, len)
  ELSE IF oc = OpCodes.CheckWatches
       THEN parseXWatchesRequest(data, p, len, OpCodes.CheckWatches)
  ELSE IF oc = OpCodes.RemoveWatches
       THEN parseXWatchesRequest(data, p, len, OpCodes.RemoveWatches)
  ELSE IF oc = OpCodes.GetEphemerals
       THEN Then(pathOnlyRequest(data, p, len), LAMBDA q :
            Emit(q, <<"onGetEphemeralsRequest", q.val>>))
  ELSE IF oc = OpCodes.GetAllChildrenNumber
       THEN Then(pathOnlyRequest(data, p, len), LAMBDA q :
            Emit(q, <<"onGetAllChildrenNumberRequest", q.val>>))
  ELSE IF oc = OpCodes.Close THEN Emit(p, <<"onCloseRequest">>)
  ELSE Throw(p, UnknownOpcode)

(***************************************************************************)
(* decodeOnData: one request at p.off.  start_time is the clock's value.   *)
(***************************************************************************)
\* mutant: a data request is recorded before its opcode is dispatched
decodeRequest_RecordFirst(data, p, len, xid, start_time) ==
  IF ~Ok(p) THEN p
  ELSE IF xid = XidCodes.ConnectXid
       THEN Then(parseConnect(data, p, len), LAMBDA q :
            Record(q, xid, OpCodes.Connect, start_time))
  ELSE IF xid = XidCodes.PingXid
       THEN Then(Emit(Advance(p, OPCODE_LENGTH), <<"onPing">>), LAMBDA q :
            Record(q, xid, OpCodes.Ping, start_time))
  ELSE IF xid = XidCodes.AuthXid
       THEN Then(parseAuthRequest(data, p, len), LAMBDA q :
            Record(q, xid, OpCodes.SetAuth, start_time))
  ELSE IF xid = XidCodes.SetWatchesXid
       THEN Then(Advance(p, OPCODE_LENGTH), LAMBDA p1 :
            Then(parseSetWatchesRequest(data, p1, len), LAMBDA q :
            Record(q, xid, OpCodes.SetWatches, start_time)))
  ELSE Then(peekInt32(data, p), LAMBDA o1 :
       Then(Record(o1, xid, o1.val, start_time), LAMBDA q :
       dispatchOpcode(data, q, len, o1.val)))

\* the control requests (lines 69-87); others fall through to the opcode switch
decodeRequest(data, p, len, xid, start_time) ==
  IF ~Ok(p) THEN p
  ELSE IF xid = XidCodes.ConnectXid
       THEN Then(parseConnect(data, p, len), LAMBDA q :
            Record(q, xid, OpCodes.Connect, start_time))
  ELSE IF xid = XidCodes.PingXid
       THEN Then(Emit(Advance(p, OPCODE_LENGTH), <<"onPing">>), LAMBDA q :
            Record(q, xid, OpCodes.Ping, start_time))
  ELSE IF xid = XidCodes.AuthXid
       THEN Then(parseAuthRequest(data, p, len), LAMBDA q :
            Record(q, xid, OpCodes.SetAuth, start_time))
  ELSE IF xid = XidCodes.SetWatchesXid
       THEN Then(Advance(p, OPCODE_LENGTH), LAMBDA p1 :
            Then(parseSetWatchesRequest(data, p1, len), LAMBDA q :
            Record(q, xid, OpCodes.SetWatches, start_time)))
  ELSE Then(peekInt32(data, p), LAMBDA o1 :
       Then(dispatchOpcode(data, o1, len, o1.val), LAMBDA q :
       Record(q, xid, o1.val, start_time)))

decodeOnData(data, p, start_time) ==
  Then(peekInt32(data, p), LAMBDA l1 :
  Then(ensureMaxLength(ensureMinLength(l1, l1.val, XID_LENGTH + INT_LENGTH), l1.val),
       LAMBDA l2 :
  Then(peekInt32(data, l2), LAMBDA x1 :
  decodeRequest(data, x1, l1.val, x1.val, start_time))))

(***************************************************************************)
(* Response parsers and decodeOnWrite: one response at p.off.              *)
(***************************************************************************)
parseConnectResponse(data, p, len, latency) ==
  Then(ensureMinLength(p, len, PROTOCOL_VERSION_LENGTH + TIMEOUT_LENGTH + SESSION_LENGTH
                                + INT_LENGTH), LAMBDA p1 :
  Then(peekInt32(data, p1), LAMBDA p2 :
  Then(Advance(p2, SESSION_LENGTH), LAMBDA p3 :
  Then(skipString(data, p3), LAMBDA p4 :
  Then(maybeReadBool(data, p4), LAMBDA p5 :
  Emit(p5, <<"onConnectResponse", 0, p2.val, p5.val, latency>>))))))

parseWatchEvent(data, p, len, zxid, error) ==
  Then(ensureMinLength(p, len, SERVER_HEADER_LENGTH + (3 * INT_LENGTH)), LAMBDA p1 :
  Then(peekInt32(data, p1), LAMBDA p2 :
  Then(peekInt32(data, p2), LAMBDA p3 :
  Then(peekString(data, p3), LAMBDA p4 :
  Emit(p4, <<"onWatchEvent", p2.val, p3.val, p4.val, zxid, error>>)))))

\* mutant: a connect response is read like any other response
decodeReply_ConnectHasHeader(data, p, len, xid, opcode, latency) ==
  IF ~Ok(p) THEN p
  ELSE Then(peekInt64(data, p), LAMBDA z1 :
       Then(peekInt32(data, z1), LAMBDA e1 :
       IF xid = XidCodes.PingXid
       THEN Emit(e1, <<"onResponse", OpCodes.Ping, xid, z1.val, e1.val, latency>>)
       ELSE IF xid = XidCodes.AuthXid
            THEN Emit(e1, <<"onResponse", OpCodes.SetAuth, xid, z1.val, e1.val, latency>>)
       ELSE IF xid = XidCodes.SetWatchesXid
            THEN Emit(e1, <<"onResponse", OpCodes.SetWatches, xid, z1.val, e1.val, latency>>)
       ELSE IF xid = XidCodes.WatchXid
            THEN parseWatchEvent(data, e1, len, z1.val, e1.val)
       ELSE Then(Emit(e1, <<"onResponse", opcode, xid, z1.val, e1.val, latency>>), LAMBDA q :
            Advance(q, len - (XID_LENGTH + ZXID_LENGTH + INT_LENGTH)))))

\* the part of decodeOnWrite after the inflight lookup (lines 203-234)
decodeReply(data, p, len, xid, opcode, latency) ==
  IF ~Ok(p) THEN p
  ELSE IF xid = XidCodes.ConnectXid THEN parseConnectResponse(data, p, len, latency)
  ELSE Then(peekInt64(data, p), LAMBDA z1 :
       Then(peekInt32(data, z1), LAMBDA e1 :
       IF xid = XidCodes.PingXid
       THEN Emit(e1, <<"onResponse", OpCodes.Ping, xid, z1.val, e1.val, latency>>)
       ELSE IF xid = XidCodes.AuthXid
            THEN Emit(e1, <<"onResponse", OpCodes.SetAuth, xid, z1.val, e1.val, latency>>)
       ELSE IF xid = XidCodes.SetWatchesXid
            THEN Emit(e1, <<"onResponse", OpCodes.SetWatches, xid, z1.val, e1.val, latency>>)
       ELSE IF xid = XidCodes.WatchXid
            THEN parseWatchEvent(data, e1, len, z1.val, e1.val)
       ELSE Then(Emit(e1, <<"onResponse", opcode, xid, z1.val, e1.val, latency>>), LAMBDA q :
            Advance(q, len - (XID_LENGTH + ZXID_LENGTH + INT_LENGTH)))))

\* mutant: the entry found is not erased
lookupRequest_NoErase(data, p, len, xid, time) ==
  IF ~Ok(p) THEN p
  ELSE IF xid # XidCodes.WatchXid
       THEN IF xid \notin DOMAIN p.reqs THEN Throw(p, XidNotFound)
            ELSE decodeReply(data, p, len, xid, p.reqs[xid].opcode,
                             time - p.reqs[xid].start_time)
  ELSE decodeReply(data, p, len, xid, 0, 0)

\* mutant: a missing entry is not an error; the response is reported with
\* default opcode and latency
lookupRequest_NoThrow(data, p, len, xid, time) ==
  IF ~Ok(p) THEN p
  ELSE IF xid # XidCodes.WatchXid /\ xid \in DOMAIN p.reqs
       THEN Then(Erase(p, xid), LAMBDA q :
            decodeReply(data, q, len, xid, p.reqs[xid].opcode,
                        time - p.reqs[xid].start_time))
  ELSE decodeReply(data, p, len, xid, 0, 0)

\* mutant: the Watch xid is looked up like any other
lookupRequest_WatchLookedUp(data, p, len, xid, time) ==
  IF ~Ok(p) THEN p
  ELSE IF xid \notin DOMAIN p.reqs THEN Throw(p, XidNotFound)
  ELSE Then(Erase(p, xid), LAMBDA q :
       decodeReply(data, q, len, xid, p.reqs[xid].opcode,
                   time - p.reqs[xid].start_time))

\* mutant: the entry is erased only after the response was parsed
lookupRequest_EraseAfterParse(data, p, len, xid, time) ==
  IF ~Ok(p) THEN p
  ELSE IF xid # XidCodes.WatchXid
       THEN IF xid \notin DOMAIN p.reqs THEN Throw(p, XidNotFound)
            ELSE Then(decodeReply(data, p, len, xid, p.reqs[xid].opcode,
                                  time - p.reqs[xid].start_time), LAMBDA q :
                 Erase(q, xid))
  ELSE decodeReply(data, p, len, xid, 0, 0)

\* the inflight lookup (lines 188-201): found entries are taken out at once
lookupRequest(data, p, len, xid, time) ==
  IF ~Ok(p) THEN p
  ELSE IF xid # XidCodes.WatchXid
       THEN IF xid \notin DOMAIN p.reqs THEN Throw(p, XidNotFound)
            ELSE Then(Erase(p, xid), LAMBDA q :
                 decodeReply(data, q, len, xid, p.reqs[xid].opcode,
                             time - p.reqs[xid].start_time))
  \* a watch event has no request: opcode and latency stay unset and unused
  ELSE decodeReply(data, p, len, xid, 0, 0)

decodeOnWrite(data, p, time) ==
  Then(peekInt32(data, p), LAMBDA l1 :
  Then(ensureMaxLength(ensureMinLength(l1, l1.val, XID_LENGTH + ZXID_LENGTH + INT_LENGTH),
                       l1.val), LAMBDA l2 :
  Then(peekInt32(data, l2), LAMBDA x1 :
  lookupRequest(data, x1, l1.val, x1.val, time))))

(***************************************************************************)
(* decode: every message of the buffer in turn, until one throws.          *)
(***************************************************************************)
NewP(reqs, cur) ==
  [off |-> 0, cur |-> cur, err |-> NoError, val |-> 0, cbs |-> <<>>, reqs |-> reqs,
   len |-> 0, full |-> FALSE, trail |-> <<>>]

\* the callback that accounts the bytes of one decoded message
onBytes(dtype, n) ==
  IF dtype = READ THEN <<"onRequestBytes", n>> ELSE <<"onResponseBytes", n>>

decodeOne(data, dtype, p, time) ==
  IF dtype = READ THEN decodeOnData(data, p, time) ELSE decodeOnWrite(data, p, time)

\* mutant: the helper's cursor is not reset between messages
decodeMessage_NoReset(data, dtype, p, time) ==
  Then(decodeOne(data, dtype, p, time), LAMBDA r :
  Emit(r, onBytes(dtype, r.off - p.off)))

\* mutant: the bytes callback reports the offset, not its advance
decodeMessage_AbsoluteOffset(data, dtype, p, time) ==
  Then(decodeOne(data, dtype, reset(p), time), LAMBDA r :
  Emit(r, onBytes(dtype, r.off)))

\* the body of the while loop (lines 570-589): one message and its bytes
\* callback
decodeMessage(data, dtype, p, time) ==
  Then(decodeOne(data, dtype, reset(p), time), LAMBDA r :
  Emit(r, onBytes(dtype, r.off - p.off)))

RECURSIVE decodeLoop(_, _, _, _)
decodeLoop(data, dtype, p, time) ==
  IF ~Ok(p) \/ ~(p.off < Len(data)) THEN p
  ELSE Then(decodeMessage(data, dtype, Iterate(p, "decode"), time), LAMBDA q :
       decodeLoop(data, dtype, q, time))

\* the catch clause: the exception ends in onDecodeError; err keeps its what()
onDecodeError(p) == IF Ok(p) THEN p ELSE [p EXCEPT !.cbs = Append(@, <<"onDecodeError">>)]

\* mutant: the catch clause logs the exception and reports nothing
decode_Silent(data, dtype, p, time) ==
  Then([p EXCEPT !.off = 0], LAMBDA p0 :
  decodeLoop(data, dtype, p0, time))

decode(data, dtype, p, time) ==
  Then([p EXCEPT !.off = 0], LAMBDA p0 :
  Then(decodeLoop(data, dtype, p0, time), LAMBDA r :
  onDecodeError(r)))

(***************************************************************************)
(* decodeAndBufferHelper: the pre-scan over the length prefixes, then the  *)
(* decode of the full packets; a trailing partial packet goes to the       *)
(* filter buffer.                                                          *)
(***************************************************************************)
MinLen(dtype) ==
  IF dtype = READ THEN XID_LENGTH + INT_LENGTH ELSE XID_LENGTH + ZXID_LENGTH + INT_LENGTH

RECURSIVE preScan(_, _, _)
preScan(data, dtype, s) ==
  IF ~Ok(s) \/ ~(s.off < Len(data)) THEN s
  ELSE Then(peekInt32(data, Iterate(s, "decodeAndBufferHelper")), LAMBDA p1 :
       Then(ensureMaxLength(ensureMinLength(p1, p1.val, MinLen(dtype)), p1.val), LAMBDA p2 :
       IF ~Ok(p2) THEN p2
       ELSE Then([p2 EXCEPT !.off = @ + p1.val, !.len = p1.val,
                            !.full = @ \/ (p2.off + p1.val <= Len(data))], LAMBDA p3 :
            preScan(data, dtype, p3))))

\* what one call leaves behind: callbacks, table, cursor, filter buffer; err
\* and off tell the exception caught and the offset at which it was thrown
Outcome(p, zk) ==
  [cbs |-> p.cbs, reqs |-> p.reqs, cur |-> p.cur, err |-> p.err, off |-> p.off, zk |-> zk,
   trail |-> p.trail]

\* mutant: the rewind to the trailing partial packet forgets its length prefix
decodeAndBufferHelper_RewindLen(data, dtype, zk_filter_buffer, reqs, cur, time) ==
  Then(preScan(data, dtype, NewP(reqs, cur)), LAMBDA s :
  IF ~Ok(s) THEN Outcome(onDecodeError(s), zk_filter_buffer)
  ELSE IF s.off = Len(data)
       THEN Then(decode(data, dtype, s, time), LAMBDA r : Outcome(r, zk_filter_buffer))
  ELSE IF s.full
       THEN Then(s.off - s.len, LAMBDA offset :
            Then(SubSeq(data, 1, offset), LAMBDA full_packets :
            Then(decode(full_packets, dtype, s, time), LAMBDA r :
            Outcome(r, zk_filter_buffer \o SubSeq(data, offset + 1, Len(data))))))
  ELSE Outcome(s, zk_filter_buffer \o data))

\* mutant: with full packets ahead of a partial one, the whole data is kept
decodeAndBufferHelper_KeepAll(data, dtype, zk_filter_buffer, reqs, cur, time) ==
  Then(preScan(data, dtype, NewP(reqs, cur)), LAMBDA s :
  IF ~Ok(s) THEN Outcome(onDecodeError(s), zk_filter_buffer)
  ELSE IF s.off = Len(data)
       THEN Then(decode(data, dtype, s, time), LAMBDA r : Outcome(r, zk_filter_buffer))
  ELSE IF s.full
       THEN Then(s.off - (INT_LENGTH + s.len), LAMBDA offset :
            Then(SubSeq(data, 1, offset), LAMBDA full_packets :
            Then(decode(full_packets, dtype, s, time), LAMBDA r :
            Outcome(r, zk_filter_buffer \o data))))
  ELSE Outcome(s, zk_filter_buffer \o data))

\* mutant: a pre-scan failure keeps the data for the next call
decodeAndBufferHelper_KeepOnError(data, dtype, zk_filter_buffer, reqs, cur, time) ==
  Then(preScan(data, dtype, NewP(reqs, cur)), LAMBDA s :
  IF ~Ok(s) THEN Outcome(onDecodeError(s), zk_filter_buffer \o data)
  ELSE IF s.off = Len(data)
       THEN Then(decode(data, dtype, s, time), LAMBDA r : Outcome(r, zk_filter_buffer))
  ELSE IF s.full
       THEN Then(s.off - (INT_LENGTH + s.len), LAMBDA offset :
            Then(SubSeq(data, 1, offset), LAMBDA full_packets :
            Then(decode(full_packets, dtype, s, time), LAMBDA r :
            Outcome(r, zk_filter_buffer \o SubSeq(data, offset + 1, Len(data))))))
  ELSE Outcome(s, zk_filter_buffer \o data))

decodeAndBufferHelper(data, dtype, zk_filter_buffer, reqs, cur, time) ==
  Then(preScan(data, dtype, NewP(reqs, cur)), LAMBDA s :
  IF ~Ok(s) THEN Outcome(onDecodeError(s), zk_filter_buffer)
  ELSE IF s.off = Len(data)
       THEN Then(decode(data, dtype, s, time), LAMBDA r : Outcome(r, zk_filter_buffer))
  ELSE IF s.full
       THEN Then(s.off - (INT_LENGTH + s.len), LAMBDA offset :
            Then(SubSeq(data, 1, offset), LAMBDA full_packets :
            Then(decode(full_packets, dtype, s, time), LAMBDA r :
            Outcome(r, zk_filter_buffer \o SubSeq(data, offset + 1, Len(data))))))
  ELSE Outcome(s, zk_filter_buffer \o data))

(***************************************************************************)
(* decodeAndBuffer: the filter buffer is moved in front of the chunk       *)
(* (prepend drains it), the helper runs, and the prepended bytes are       *)
(* drained from the chunk again.                                           *)
(***************************************************************************)
drain(data, n) == SubSeq(data, n + 1, Len(data))

\* mutant: the prepended bytes are not drained from the chunk
decodeAndBuffer_NoDrain(data, dtype, zk_filter_buffer, reqs, cur, time) ==
  IF Len(zk_filter_buffer) = 0
  THEN Then(decodeAndBufferHelper(data, dtype, zk_filter_buffer, reqs, cur, time), LAMBDA r :
       [out |-> r, data |-> data, ret |-> Continue])
  ELSE Then(zk_filter_buffer \o data, LAMBDA joined :
       Then(decodeAndBufferHelper(joined, dtype, <<>>, reqs, cur, time), LAMBDA r :
       [out |-> r, data |-> joined, ret |-> Continue]))

decodeAndBuffer(data, dtype, zk_filter_buffer, reqs, cur, time) ==
  IF Len(zk_filter_buffer) = 0
  THEN Then(decodeAndBufferHelper(data, dtype, zk_filter_buffer, reqs, cur, time), LAMBDA r :
       [out |-> r, data |-> data, ret |-> Continue])
  ELSE Then(zk_filter_buffer \o data, LAMBDA joined :
       Then(decodeAndBufferHelper(joined, dtype, <<>>, reqs, cur, time), LAMBDA r :
       [out |-> r, data |-> drain(joined, Len(zk_filter_buffer)), ret |-> Continue]))

(***************************************************************************)
(* Wire encodings of the messages the peers send.                          *)
(***************************************************************************)
Byte(m, i) == (m \div (256 ^ i)) % 256

I32(n) ==
  IF n >= 0 THEN <<Byte(n, 3), Byte(n, 2), Byte(n, 1), Byte(n, 0)>>
  ELSE LET m == -(n + 1)
       IN <<255 - Byte(m, 3), 255 - Byte(m, 2), 255 - Byte(m, 1), 255 - Byte(m, 0)>>

I64(hi, lo) == I32(hi) \o I32(lo)
Str(s) == I32(Len(s)) \o s
Bool(b) == IF b THEN <<1>> ELSE <<0>>
Pad(n) == [i \in 1..n |-> 0]
Frame(body) == I32(Len(body)) \o body
\* a frame that declares length L whatever its body holds
FrameL(L, body) == I32(L) \o body

PingRequest == Frame(I32(XidCodes.PingXid) \o I32(OpCodes.Ping))
CloseRequest(xid) == Frame(I32(xid) \o I32(OpCodes.Close))
GetDataRequest(xid, path, watch) ==
  Frame(I32(xid) \o I32(OpCodes.GetData) \o Str(path) \o Bool(watch))
GetAclRequest(xid, path) == Frame(I32(xid) \o I32(OpCodes.GetAcl) \o Str(path))
UnknownRequest(xid) == Frame(I32(xid) \o I32(99))
\* a GetData request that ends after its opcode
TruncatedRequest(xid) == Frame(I32(xid) \o I32(OpCodes.GetData))
\* a connect request starts with the protocol version 0, read as the xid
ConnectRequest(passwd, ro) ==
  Frame(I32(0) \o I64(0, 0) \o I32(30) \o I64(0, 0) \o Str(passwd) \o ro)
CheckOp(path, version) == Str(path) \o I32(version)
MultiHeader(op, done) == I32(op) \o Bool(done) \o I32(-1)
MultiRequest(xid, ops) == Frame(I32(xid) \o I32(OpCodes.Multi) \o ops)
\* a Create sub-operation: path, data, an empty ACL vector, flags
CreateOp(path, content, flags) == Str(path) \o Str(content) \o I32(0) \o I32(flags)
\* Check + Create + done
CheckCreateMulti ==
  MultiRequest(1, MultiHeader(OpCodes.Check, FALSE) \o CheckOp(<<>>, 1)
                  \o MultiHeader(OpCodes.Create, FALSE) \o CreateOp(<<>>, <<>>, 2)
                  \o MultiHeader(-1, TRUE))
\* Check, then a header with done = false and a nested opcode that is none
\* of Create, SetData, Check
BadNestedMulti ==
  MultiRequest(1, MultiHeader(OpCodes.Check, FALSE) \o CheckOp(<<>>, 1)
                  \o MultiHeader(99, FALSE))
\* an ACL entry: perms, scheme, credential
Acl(perms, scheme, cred) == I32(perms) \o Str(scheme) \o Str(cred)
\* a SetAcl request whose ACL vector declares count entries and holds acls
SetAclRequest(xid, path, count, acls, version) ==
  Frame(I32(xid) \o I32(OpCodes.SetAcl) \o Str(path) \o I32(count) \o acls \o I32(version))
\* a SetWatches request: relative zxid and three string vectors, the first
\* declaring count strings and holding strs
SetWatchesRequest(count, strs) ==
  Frame(I32(XidCodes.SetWatchesXid) \o I32(OpCodes.SetWatches) \o I64(0, 0)
        \o I32(count) \o strs \o I32(0) \o I32(0))
\* a Multi request that ends without a header with done = true
OpenMulti ==
  MultiRequest(1, MultiHeader(OpCodes.Check, FALSE) \o CheckOp(<<>>, 1))

Response(xid, zxid, err, body) == Frame(I32(xid) \o I64(0, zxid) \o I32(err) \o body)
ConnectResponse(timeout, passwd, ro) ==
  Frame(I32(0) \o I32(timeout) \o I64(0, 0) \o Str(passwd) \o ro)
WatchEvent(type, state, path) ==
  Frame(I32(XidCodes.WatchXid) \o I64(0, 1) \o I32(0) \o I32(type) \o I32(state) \o Str(path))

\* the streams of 1..MaxFrames frames of a set of frames
RECURSIVE Streams(_, _)
Streams(frames, n) ==
  IF n = 0 THEN {<<>>}
  ELSE LET shorter == Streams(frames, n - 1)
       IN shorter \cup {s \o f : s \in shorter, f \in frames}

Bursts(frames) == Streams(frames, MaxFrames) \ {<<>>}

RECURSIVE Repeat(_, _)
Repeat(frame, n) == IF n = 0 THEN <<>> ELSE frame \o Repeat(frame, n - 1)

\* the bursts of up to MaxFrames frames that hold one frame of the set among
\* copies of the frame pad
PaddedBursts(frames, pad) ==
  {Repeat(pad, ij[1]) \o f \o Repeat(pad, ij[2]) :
     f \in frames,
     ij \in {ij \in (0..(MaxFrames - 1)) \X (0..(MaxFrames - 1)) : ij[1] + ij[2] < MaxFrames}}

(***************************************************************************)
(* The state machine.  A peer writes a burst of frames to its socket; the  *)
(* network hands it to the filter in up to MaxChunks chunks, each through  *)
(* onData (requests) or onWrite (responses).                               *)
(***************************************************************************)
NoCall ==
  [dtype |-> "none", input |-> <<>>, data |-> <<>>, cbs |-> <<>>, err |-> NoError,
   off |-> 0, ret |-> "none", trail |-> <<>>,
   pre |-> [reqs |-> <<>>, zk |-> <<>>, other |-> <<>>, cur |-> 0, now |-> 0]]

Idle ==
  [dtype |-> "none", stream |-> <<>>, pos |-> 0, n |-> 0, acc |-> <<>>,
   pre |-> [reqs |-> <<>>, zk |-> <<>>, cur |-> 0, now |-> 0]]

Init ==
  /\ requests_by_xid_ = <<>>
  /\ zk_filter_read_buffer_ = <<>>
  /\ zk_filter_write_buffer_ = <<>>
  /\ current_ = 0
  /\ now = 0
  /\ net = Idle
  /\ call = NoCall

Remaining == SubSeq(net.stream, net.pos + 1, Len(net.stream))

\* a peer writes the burst s
Send(dtype, bursts) ==
  /\ net.pos = Len(net.stream)
  /\ \E s \in bursts :
       net' = [dtype |-> dtype, stream |-> s, pos |-> 0, n |-> 0, acc |-> <<>>,
               pre |-> [reqs |-> requests_by_xid_,
                        zk |-> IF dtype = READ THEN zk_filter_read_buffer_
                               ELSE zk_filter_write_buffer_,
                        cur |-> current_, now |-> now]]
  /\ call' = NoCall
  /\ UNCHANGED <<requests_by_xid_, zk_filter_read_buffer_, zk_filter_write_buffer_,
                 current_, now>>

\* the sizes the network may give the next chunk
ChunkSizes(split) ==
  IF split /\ net.n + 1 < MaxChunks THEN 1..Len(Remaining) ELSE {Len(Remaining)}

Called(dtype, chunk, zk, r) ==
  [dtype |-> dtype, input |-> chunk, data |-> r.data, cbs |-> r.out.cbs,
   err |-> r.out.err, off |-> r.out.off, ret |-> r.ret, trail |-> r.out.trail,
   pre |-> [reqs |-> requests_by_xid_, zk |-> zk,
            other |-> IF dtype = READ THEN zk_filter_write_buffer_
                      ELSE zk_filter_read_buffer_,
            cur |-> current_, now |-> now]]

Delivered(k, r) ==
  [net EXCEPT !.pos = @ + k, !.n = @ + 1, !.acc = @ \o r.out.cbs]

\* mutant: onData works on the buffer of the other direction
OnData_WrongBuffer(split) ==
  /\ net.dtype = READ
  /\ net.pos < Len(net.stream)
  /\ \E k \in ChunkSizes(split) :
     \E chunk \in {SubSeq(Remaining, 1, k)} :
     \E r \in {decodeAndBuffer(chunk, READ, zk_filter_write_buffer_, requests_by_xid_,
                                current_, now)} :
          /\ requests_by_xid_' = r.out.reqs
          /\ zk_filter_write_buffer_' = r.out.zk
          /\ current_' = r.out.cur
          /\ call' = Called(READ, chunk, zk_filter_write_buffer_, r)
          /\ net' = Delivered(k, r)
  /\ UNCHANGED <<zk_filter_read_buffer_, now>>

\* Network::FilterStatus DecoderImpl::onData(Buffer::Instance& data)
OnData(split) ==
  /\ net.dtype = READ
  /\ net.pos < Len(net.stream)
  /\ \E k \in ChunkSizes(split) :
     \E chunk \in {SubSeq(Remaining, 1, k)} :
     \E r \in {decodeAndBuffer(chunk, READ, zk_filter_read_buffer_, requests_by_xid_,
                                current_, now)} :
          /\ requests_by_xid_' = r.out.reqs
          /\ zk_filter_read_buffer_' = r.out.zk
          /\ current_' = r.out.cur
          /\ call' = Called(READ, chunk, zk_filter_read_buffer_, r)
          /\ net' = Delivered(k, r)
  /\ UNCHANGED <<zk_filter_write_buffer_, now>>

\* Network::FilterStatus DecoderImpl::onWrite(Buffer::Instance& data)
OnWrite(split) ==
  /\ net.dtype = WRITE
  /\ net.pos < Len(net.stream)
  /\ \E k \in ChunkSizes(split) :
     \E chunk \in {SubSeq(Remaining, 1, k)} :
     \E r \in {decodeAndBuffer(chunk, WRITE, zk_filter_write_buffer_, requests_by_xid_,
                                current_, now)} :
          /\ requests_by_xid_' = r.out.reqs
          /\ zk_filter_write_buffer_' = r.out.zk
          /\ current_' = r.out.cur
          /\ call' = Called(WRITE, chunk, zk_filter_write_buffer_, r)
          /\ net' = Delivered(k, r)
  /\ UNCHANGED <<zk_filter_read_buffer_, now>>

\* the monotonic clock advances
Tick ==
  /\ now < MaxTime
  /\ now' = now + 1
  /\ UNCHANGED <<requests_by_xid_, zk_filter_read_buffer_, zk_filter_write_buffer_,
                 current_, net, call>>

(***************************************************************************)
(* Spec: request / response correlation.  Whole bursts of requests and     *)
(* responses, cut anywhere by the network.                                 *)
(***************************************************************************)
ReqFrames ==
  {PingRequest, CloseRequest(1), GetDataRequest(1, <<97>>, TRUE), UnknownRequest(1),
   TruncatedRequest(1)}
RespFrames ==
  {Response(XidCodes.PingXid, 1, 0, <<>>), Response(1, 2, 0, <<>>),
   Response(1, 3, 0, Pad(4)), Response(2, 3, 0, <<>>)}

Next ==
  \/ Send(READ, Bursts(ReqFrames))
  \/ Send(WRITE, Bursts(RespFrames))
  \/ OnData(FALSE)
  \/ OnWrite(FALSE)
  \/ Tick

Spec == Init /\ [][Next]_vars

(***************************************************************************)
(* SpecStream: reassembly.  Bursts of well-formed frames, and one that     *)
(* stops inside a length prefix, cut by the network at any byte.  The      *)
(* clock stands still.                                                     *)
(***************************************************************************)
StreamReqFrames == {PingRequest}
StreamRespFrames == {Response(XidCodes.PingXid, 1, 0, <<>>)}
\* a ping and the first two bytes of the next frame, after which the client
\* stalls
StalledBurst == PingRequest \o <<0, 0>>

NextStream ==
  \/ Send(READ, Bursts(StreamReqFrames) \cup {StalledBurst})
  \/ Send(WRITE, Bursts(StreamRespFrames))
  \/ OnData(TRUE)
  \/ OnWrite(TRUE)

SpecStream == Init /\ [][NextStream]_vars

(***************************************************************************)
(* SpecFrame: frame lengths at and around the bounds, connect messages     *)
(* with and without the optional readonly byte, a Multi with a bad         *)
(* sub-operation.  Whole bursts: one such frame among pings.               *)
(***************************************************************************)
ConnectLen == XID_LENGTH + ZXID_LENGTH + TIMEOUT_LENGTH + SESSION_LENGTH + INT_LENGTH

FrameReqFrames ==
  {PingRequest,
   ConnectRequest(<<>>, <<>>),
   ConnectRequest(Pad(max_packet_bytes_ - ConnectLen), <<>>),
   ConnectRequest(Pad(max_packet_bytes_ + 1 - ConnectLen), <<>>),
   GetAclRequest(1, Pad(max_packet_bytes_ - 12)),
   FrameL(7, Pad(7)),
   FrameL(-1, Pad(8)),
   BadNestedMulti}
FrameRespFrames ==
  {Response(XidCodes.PingXid, 1, 0, <<>>),
   Response(1, 2, 0, Pad(max_packet_bytes_ - SERVER_HEADER_LENGTH)),
   Response(1, 2, 0, Pad(max_packet_bytes_ + 1 - SERVER_HEADER_LENGTH)),
   FrameL(15, Pad(15)),
   ConnectResponse(30, <<>>, <<>>)}

NextFrame ==
  \/ Send(READ, PaddedBursts(FrameReqFrames, PingRequest))
  \/ Send(WRITE, PaddedBursts(FrameRespFrames, Response(XidCodes.PingXid, 1, 0, <<>>)))
  \/ OnData(FALSE)
  \/ OnWrite(FALSE)
  \/ Tick

SpecFrame == Init /\ [][NextFrame]_vars

(***************************************************************************)
(* SpecSession: watch events and control responses.  Whole bursts; a       *)
(* client that uses the Watch xid for a request of its own, a ping         *)
(* response that carries a body.  The clock stands still.                  *)
(***************************************************************************)
WatchNotice == WatchEvent(1, 3, <<97>>)
PingReplyWithBody == Response(XidCodes.PingXid, 1, 0, Pad(4))

SessionReqFrames == {PingRequest, CloseRequest(XidCodes.WatchXid)}
SessionRespFrames == {WatchNotice, Response(XidCodes.PingXid, 1, 0, <<>>), PingReplyWithBody}

NextSession ==
  \/ Send(READ, Bursts(SessionReqFrames))
  \/ Send(WRITE, Bursts(SessionRespFrames))
  \/ OnData(FALSE)
  \/ OnWrite(FALSE)

SpecSession == Init /\ [][NextSession]_vars

(***************************************************************************)
(* SpecMulti: Multi requests, well formed and with a bad sub-operation     *)
(* header, among pings, and the response that answers them.                *)
(***************************************************************************)
MultiReqFrames == {CheckCreateMulti, BadNestedMulti}
MultiRespFrames == {Response(1, 2, 0, <<>>)}

NextMulti ==
  \/ Send(READ, PaddedBursts(MultiReqFrames, PingRequest))
  \/ Send(WRITE, Bursts(MultiRespFrames))
  \/ OnData(FALSE)
  \/ OnWrite(FALSE)
  \/ Tick

SpecMulti == Init /\ [][NextMulti]_vars

(***************************************************************************)
(* SpecCursor: requests whose path string ends at the ceiling of the       *)
(* helper's cursor, beyond it, or beyond the end of their own frame.       *)
(***************************************************************************)
\* declares L = 12, yet its path is 8 bytes long: the path lies in the
\* frame that follows
OverrunGetAcl == FrameL(12, I32(1) \o I32(OpCodes.GetAcl) \o I32(8))

CursorReqFrames ==
  {OverrunGetAcl,
   GetAclRequest(1, Pad(max_packet_bytes_ - 16)),
   GetAclRequest(1, Pad(max_packet_bytes_ - 12))}

NextCursor ==
  \/ Send(READ, PaddedBursts(CursorReqFrames, PingRequest))
  \/ Send(WRITE, Bursts({Response(1, 2, 0, <<>>)}))
  \/ OnData(FALSE)
  \/ OnWrite(FALSE)

SpecCursor == Init /\ [][NextCursor]_vars

(***************************************************************************)
(* SpecDuplex: the two directions interleaved.  Each peer writes whole     *)
(* frames, halves of frames and malformed frames; a half leaves a residual *)
(* behind while the other peer writes.                                     *)
(***************************************************************************)
PingResponse == Response(XidCodes.PingXid, 1, 0, <<>>)

DuplexReqBursts ==
  {PingRequest, SubSeq(PingRequest, 1, 6), SubSeq(PingRequest, 7, 12),
   CloseRequest(1), UnknownRequest(1), FrameL(-1, Pad(8))}
DuplexRespBursts ==
  {PingResponse, SubSeq(PingResponse, 1, 10), SubSeq(PingResponse, 11, 20),
   Response(1, 2, 0, <<>>), FrameL(15, Pad(15))}

NextDuplex ==
  \/ Send(READ, DuplexReqBursts)
  \/ Send(WRITE, DuplexRespBursts)
  \/ OnData(FALSE)
  \/ OnWrite(FALSE)

SpecDuplex == Init /\ [][NextDuplex]_vars

(***************************************************************************)
(* SpecRetry: a server that answers a connect request with a response too  *)
(* short for its fixed fields and then with a well-formed one.  The        *)
(* network may cut the responses anywhere.                                 *)
(***************************************************************************)
\* xid 0 and L = 16: passes the length check of a response, too short for
\* parseConnectResponse
ShortConnectResponse == FrameL(16, I32(XidCodes.ConnectXid) \o Pad(12))

RetryReqBursts == {ConnectRequest(<<>>, <<>>), PingRequest}
RetryRespBursts ==
  {ShortConnectResponse,
   ConnectResponse(30, <<>>, <<>>),
   ShortConnectResponse \o ConnectResponse(30, <<>>, <<>>),
   PingResponse}

NextRetry ==
  \/ Send(READ, RetryReqBursts)
  \/ Send(WRITE, RetryRespBursts)
  \/ OnData(FALSE)
  \/ OnWrite(TRUE)

SpecRetry == Init /\ [][NextRetry]_vars

(***************************************************************************)
(* SpecLoop: requests that drive the loops over Multi headers, ACLs and    *)
(* string vectors, with counts that match their content and counts that    *)
(* promise more than the frame, or the buffer, holds.                      *)
(***************************************************************************)
LoopReqFrames ==
  {CheckCreateMulti,
   OpenMulti,
   SetAclRequest(1, <<>>, 2, Acl(1, <<>>, <<>>) \o Acl(2, <<>>, <<>>), 3),
   SetAclRequest(1, <<>>, 3, Acl(1, <<>>, <<>>), 3),
   SetWatchesRequest(2, Str(<<97>>) \o Str(<<98>>)),
   SetWatchesRequest(3, Str(<<97>>))}

NextLoop ==
  \/ Send(READ, PaddedBursts(LoopReqFrames, PingRequest))
  \/ Send(WRITE, Bursts({PingResponse}))
  \/ OnData(FALSE)
  \/ OnWrite(FALSE)

SpecLoop == Init /\ [][NextLoop]_vars

(***************************************************************************)
(* Properties.  The last call is described by call: its chunk (input), the *)
(* chunk after the call (data), the callbacks, the exception caught (err),  *)
(* the offset at which it was thrown (off) and the decoder's state before  *)
(* the call (pre).                                                         *)
(***************************************************************************)
IsCall == call.dtype \in {READ, WRITE}
\* the bytes the call decodes: the residual followed by the chunk
Joined == call.pre.zk \o call.input
MinBodyLen(dtype) == IF dtype = READ THEN 8 ELSE 16
BytesCallbacks == {"onRequestBytes", "onResponseBytes"}
Count(cbs, name) == Cardinality({i \in DOMAIN cbs : cbs[i][1] = name})

\* the frames of a buffer of complete frames
RECURSIVE FramesOf(_)
FramesOf(data) ==
  IF Len(data) < 4 THEN <<>>
  ELSE <<SubSeq(data, 1, 4 + BE32(data, 0))>>
       \o FramesOf(SubSeq(data, 5 + BE32(data, 0), Len(data)))
XidOf(frame) == BE32(frame, 4)
OpcodeOf(frame) ==
  IF XidOf(frame) = XidCodes.PingXid THEN OpCodes.Ping ELSE BE32(frame, 8)
\* the number of messages the call decoded
Decoded == Cardinality({i \in DOMAIN call.cbs : call.cbs[i][1] \in BytesCallbacks})
\* the positions in call.cbs of the response callbacks for xid x
ResponsesFor(x) ==
  {i \in DOMAIN call.cbs :
     \/ call.cbs[i][1] = "onResponse" /\ call.cbs[i][3] = x
     \/ call.cbs[i][1] = "onConnectResponse" /\ x = XidCodes.ConnectXid}
LastCallback == call.cbs[Len(call.cbs)]

\* C1: a stream of well-formed frames fed in two chunks, cut at any byte, emits
\* the callbacks that the whole stream fed in one call emits, in the same order.
C1_SplitEmitsSameCallbacks ==
  (/\ net.n = 2
   /\ net.pos = Len(net.stream)
   /\ net.pre.zk = <<>>
   /\ net.pre.now = now)
  => \A whole \in {decodeAndBuffer(net.stream, net.dtype, <<>>, net.pre.reqs,
                                    net.pre.cur, net.pre.now).out} :
       whole.err = NoError => net.acc = whole.cbs

\* C8: every onData / onWrite call returns Continue and leaves in the chunk
\* buffer exactly the bytes it held on entry.
C8_ChunkUnchanged ==
  IsCall => (call.ret = Continue /\ call.data = call.input)

\* a call that found a residual, prepended it and drained it again
C8_Witness ==
  /\ IsCall
  /\ call.pre.zk # <<>>
  /\ call.input # <<>>
  /\ call.cbs # <<>>
  /\ call.data = call.input

\* C9: after every call each direction's residual is empty or a proper prefix
\* of one packet: at least 4 bytes, a length prefix L within the direction's
\* bounds, fewer than L + 4 bytes.
IncompletePacket(b, dtype) ==
  \/ b = <<>>
  \/ /\ Len(b) >= 4
     /\ MinBodyLen(dtype) <= BE32(b, 0)
     /\ BE32(b, 0) <= max_packet_bytes_
     /\ Len(b) < BE32(b, 0) + 4

C9_ResidualIsIncompletePacket ==
  /\ IncompletePacket(zk_filter_read_buffer_, READ)
  /\ IncompletePacket(zk_filter_write_buffer_, WRITE)

\* full packets were decoded and the trailing partial packet was kept
C9_Witness ==
  /\ call.dtype = READ
  /\ zk_filter_read_buffer_ # <<>>
  /\ Count(call.cbs, "onRequestBytes") >= 1
  /\ Len(zk_filter_read_buffer_) < Len(call.input)

\* C2: in a call that decodes responses, the first decoded response that
\* carries a pending xid x other than the Watch xid emits exactly one
\* onResponse for x, with the opcode stored for x and the latency
\* now - start_time >= 0, and x is absent from the table afterwards.
C2_ResponseMatchesRequest ==
  call.dtype = WRITE =>
    \A frames \in {FramesOf(call.input)} :
    \A i \in DOMAIN frames :
    \A x \in {XidOf(frames[i])} :
      (/\ x # XidCodes.WatchXid
       /\ x \in DOMAIN call.pre.reqs
       /\ \A j \in 1..(i - 1) : XidOf(frames[j]) # x
       /\ i <= Decoded)
      => /\ \E k \in ResponsesFor(x) :
              /\ ResponsesFor(x) = {k}
              /\ call.cbs[k][1] = "onResponse"
              /\ call.cbs[k][2] = call.pre.reqs[x].opcode
              /\ call.cbs[k][6] = call.pre.now - call.pre.reqs[x].start_time
              /\ call.cbs[k][6] >= 0
         /\ x \notin DOMAIN requests_by_xid_

\* the response to a GetData request arrives one tick after the request
C2_Witness ==
  /\ call.dtype = WRITE
  /\ 1 \in DOMAIN call.pre.reqs
  /\ Len(call.cbs) >= 2
  /\ call.cbs[1][1] = "onResponse"
  /\ call.cbs[1][2] = OpCodes.GetData
  /\ call.cbs[1][3] = 1
  /\ call.cbs[1][6] = 1
  /\ 1 \notin DOMAIN requests_by_xid_

\* C3: a response whose xid is not the Watch xid and has no entry in the
\* table ends the call with onDecodeError (xid not found) and no response
\* callback for it; in one call an xid gets at most one response callback, and
\* none unless it was pending.
C3_UnmatchedResponseIsError ==
  call.dtype = WRITE =>
    \A frames \in {FramesOf(call.input)} :
      /\ \A i \in DOMAIN frames :
         \A x \in {XidOf(frames[i])} :
           (/\ x # XidCodes.WatchXid
            /\ x \notin DOMAIN call.pre.reqs
            /\ i <= Decoded + 1)
           => /\ Decoded = i - 1
              /\ call.err = XidNotFound
              /\ LastCallback = <<"onDecodeError">>
              /\ ResponsesFor(x) = {}
      /\ \A i \in DOMAIN frames :
           Cardinality(ResponsesFor(XidOf(frames[i])))
             <= IF XidOf(frames[i]) \in DOMAIN call.pre.reqs THEN 1 ELSE 0

\* a matched response, then a response nobody asked for
C3_Witness ==
  /\ call.dtype = WRITE
  /\ call.err = XidNotFound
  /\ Decoded = 1
  /\ call.cbs[1][1] = "onResponse"
  /\ LastCallback = <<"onDecodeError">>

\* C4: a decoded request takes the table's entry for its xid, pending or not,
\* without error: after the call the entry holds the opcode and the start
\* time of the last decoded request with that xid.  Two responses with one
\* pending xid: the first reports the stored opcode, the second is a decode
\* error (xid not found).
C4_LastRequestWins ==
  /\ call.dtype = READ =>
       \A frames \in {FramesOf(call.input)} :
       \A i \in DOMAIN frames :
         (/\ i <= Decoded
          /\ \A j \in (i + 1)..Decoded : XidOf(frames[j]) # XidOf(frames[i]))
         => /\ XidOf(frames[i]) \in DOMAIN requests_by_xid_
            /\ requests_by_xid_[XidOf(frames[i])]
                 = [opcode |-> OpcodeOf(frames[i]), start_time |-> call.pre.now]
  /\ call.dtype = READ /\ call.err # NoError =>
       \A frames \in {FramesOf(call.input)} :
         /\ Decoded < Len(frames)
         /\ frames[Decoded + 1] \notin {PingRequest, CloseRequest(1),
                                        GetDataRequest(1, <<97>>, TRUE)}
  /\ call.dtype = WRITE =>
       \A frames \in {FramesOf(call.input)} :
         (/\ Len(frames) >= 2
          /\ XidOf(frames[1]) = XidOf(frames[2])
          /\ XidOf(frames[1]) \in DOMAIN call.pre.reqs
          /\ XidOf(frames[1]) # XidCodes.WatchXid)
         => /\ Len(call.cbs) = 3
            /\ call.cbs[1][1] = "onResponse"
            /\ call.cbs[1][2] = call.pre.reqs[XidOf(frames[1])].opcode
            /\ call.cbs[2][1] = "onResponseBytes"
            /\ call.cbs[3] = <<"onDecodeError">>
            /\ call.err = XidNotFound

\* a GetData request takes over the xid of a Close request pending since the
\* tick before
C4_Witness ==
  /\ call.dtype = READ
  /\ call.err = NoError
  /\ 1 \in DOMAIN call.pre.reqs
  /\ call.pre.reqs[1] = [opcode |-> OpCodes.Close, start_time |-> 0]
  /\ 1 \in DOMAIN requests_by_xid_
  /\ requests_by_xid_[1] = [opcode |-> OpCodes.GetData, start_time |-> 1]

\* C10: a data request with an unrecognized opcode ends the call with
\* onDecodeError and no request callback; the table changes only at the xids
\* of the requests the call decoded, so a request whose decode fails neither
\* adds nor overwrites an entry.
C10_FailedRequestNotRecorded ==
  call.dtype = READ =>
    \A frames \in {FramesOf(call.input)} :
      /\ (/\ Decoded < Len(frames)
          /\ frames[Decoded + 1] = UnknownRequest(1))
         => /\ call.err = UnknownOpcode
            /\ Len(call.cbs) = 2 * Decoded + 1
            /\ LastCallback = <<"onDecodeError">>
      /\ call.err # NoError => Decoded < Len(frames)
      /\ \A x \in (DOMAIN requests_by_xid_) \cup (DOMAIN call.pre.reqs) :
           (\A j \in 1..Decoded : XidOf(frames[j]) # x)
           => /\ x \in DOMAIN requests_by_xid_
              /\ x \in DOMAIN call.pre.reqs
              /\ requests_by_xid_[x] = call.pre.reqs[x]

\* an unknown opcode arrives under an xid that is pending since the tick before
C10_Witness ==
  /\ call.dtype = READ
  /\ call.err = UnknownOpcode
  /\ call.input = UnknownRequest(1)
  /\ call.pre.now = 1
  /\ 1 \in DOMAIN call.pre.reqs
  /\ call.pre.reqs[1].start_time = 0
  /\ requests_by_xid_ = call.pre.reqs

\* what the bounds say about the length prefixes of a buffer, frame by frame
\* as they are declared: NoError when all are within the bounds, else the
\* complaint about the first that is not
RECURSIVE LengthVerdict(_, _)
LengthVerdict(data, dtype) ==
  IF Len(data) < 4 THEN NoError
  ELSE IF BE32(data, 0) < MinBodyLen(dtype) THEN TooSmall
  ELSE IF BE32(data, 0) > max_packet_bytes_ THEN TooBig
  ELSE LengthVerdict(SubSeq(data, 5 + BE32(data, 0), Len(data)), dtype)

\* the offsets at which the frames of a buffer begin, up to the first frame
\* that declares a negative length
RECURSIVE FrameStarts(_, _)
FrameStarts(data, off) ==
  IF Len(data) - off < 4 THEN {}
  ELSE IF BE32(data, off) < 0 THEN {off}
  ELSE {off} \cup FrameStarts(data, off + 4 + BE32(data, off))

\* the offset the decoder had reached when the call ended or failed
RECURSIVE SumBytes(_)
SumBytes(cbs) ==
  IF cbs = <<>> THEN 0
  ELSE (IF cbs[1][1] \in BytesCallbacks THEN cbs[1][2] ELSE 0) + SumBytes(Tail(cbs))

\* the call failed in a check of the length prefix at offset start
RejectedLengthAt(start) ==
  call.err \in {TooBig, TooSmall} /\ call.off = start + INT_LENGTH

\* the callbacks of the call that are no bytes callbacks and no onDecodeError
Semantic == {i \in DOMAIN call.cbs : call.cbs[i][1] \notin BytesCallbacks \cup {"onDecodeError"}}

\* C5: a declared length L passes the length checks exactly when
\* min_body_len <= L <= max_packet_bytes_ (8 for requests, 16 for responses).
\* A frame with L above the maximum ends the call in onDecodeError with
\* "too big", one with L below the minimum (negative L included) with "too
\* small", and no semantic callback fires; the length prefix of a frame
\* within the bounds, L = max_packet_bytes_ included, is never found too big
\* or too small.  (Once the helper's cursor is used up the helper's own
\* complaint comes first.)
C5_LengthBounds ==
  IsCall =>
    \A verdict \in {LengthVerdict(Joined, call.dtype)} :
      /\ verdict # NoError =>
           /\ call.cbs = <<<<"onDecodeError">>>>
           /\ Semantic = {}
           /\ call.err \in {verdict, BeyondMax}
           /\ call.pre.cur + INT_LENGTH * MaxFrames <= max_packet_bytes_ => call.err = verdict
           /\ requests_by_xid_ = call.pre.reqs
      /\ verdict # NoError /\ call.err = verdict =>
           \E start \in FrameStarts(Joined, 0) :
              /\ RejectedLengthAt(start)
              /\ \/ BE32(Joined, start) < MinBodyLen(call.dtype)
                 \/ BE32(Joined, start) > max_packet_bytes_
      /\ verdict = NoError =>
           \A start \in FrameStarts(Joined, 0) : ~RejectedLengthAt(start)

\* a connect request of exactly max_packet_bytes_ is decoded
C5_Witness ==
  /\ call.dtype = READ
  /\ BE32(call.input, 0) = max_packet_bytes_
  /\ Len(call.input) = max_packet_bytes_ + 4
  /\ call.err = NoError
  /\ call.cbs = <<<<"onConnect", FALSE>>, <<"onRequestBytes", max_packet_bytes_ + 4>>>>

\* C6: every decoded message of a buffer of well-formed frames advances the
\* offset by its L + 4: the bytes callback of the i-th message reports the
\* length of the i-th frame.
C6_ConsumesExactlyItsFrame ==
  (IsCall /\ LengthVerdict(call.input, call.dtype) = NoError) =>
    \A frames \in {FramesOf(call.input)} :
    \A bytes \in {SelectSeq(call.cbs, LAMBDA cb : cb[1] \in BytesCallbacks)} :
    \A i \in DOMAIN bytes : bytes[i][2] = Len(frames[i])

\* the position of the last bytes callback, 0 when there is none
LastBytes ==
  IF \E i \in DOMAIN call.cbs : call.cbs[i][1] \in BytesCallbacks
  THEN CHOOSE i \in DOMAIN call.cbs :
         /\ call.cbs[i][1] \in BytesCallbacks
         /\ \A j \in DOMAIN call.cbs : call.cbs[j][1] \in BytesCallbacks => j <= i
  ELSE 0
SubOpCallbacks == {"onCheckRequest", "onCreateRequest", "onSetRequest"}

\* C7 as stated: a failure ends the call with one onDecodeError that follows
\* the bytes callback of the last decoded message at once (nothing is
\* reported for the message that failed), the call returns Continue, and a
\* call without a failure reports no onDecodeError.
C7_NothingForFailedMessage ==
  IsCall =>
    /\ call.ret = Continue
    /\ Count(call.cbs, "onDecodeError") = IF call.err = NoError THEN 0 ELSE 1
    /\ call.err # NoError =>
         /\ LastCallback = <<"onDecodeError">>
         /\ Len(call.cbs) = LastBytes + 1

\* C7, amended: as above, but between the last bytes callback and
\* onDecodeError stand the callbacks of the sub-operations of a Multi request
\* that were parsed before the Multi failed, and nothing else.
C7_OnlySubOpsForFailedMessage ==
  IsCall =>
    /\ call.ret = Continue
    /\ Count(call.cbs, "onDecodeError") = IF call.err = NoError THEN 0 ELSE 1
    /\ call.err # NoError =>
         /\ LastCallback = <<"onDecodeError">>
         /\ \A i \in (LastBytes + 1)..(Len(call.cbs) - 1) :
              /\ call.cbs[i][1] \in SubOpCallbacks
              /\ call.dtype = READ
              /\ BE32(Joined, SumBytes(call.cbs) + 8) = OpCodes.Multi

\* a Multi request reports its Check sub-operation and then fails, after a
\* ping was decoded
C7_Witness ==
  /\ call.dtype = READ
  /\ call.err = UnknownNested
  /\ Len(call.cbs) = 4
  /\ call.cbs[1] = <<"onPing">>
  /\ call.cbs[2] = <<"onRequestBytes", 12>>
  /\ call.cbs[3][1] = "onCheckRequest"
  /\ call.cbs[4] = <<"onDecodeError">>

\* where a walk over the declared lengths of a buffer ends: at or beyond its
\* end, or -1 when fewer than 4 bytes are left for a length prefix
RECURSIVE ScanEnd(_, _)
ScanEnd(data, off) ==
  IF off >= Len(data) THEN off
  ELSE IF Len(data) - off < 4 THEN -1
  ELSE ScanEnd(data, off + 4 + BE32(data, off))

\* the residual of the direction of the last call
Residual ==
  IF call.dtype = READ THEN zk_filter_read_buffer_ ELSE zk_filter_write_buffer_

\* the pre-scan of the combined stream finds a length out of bounds or a
\* fragment of a length prefix
PreScanFails ==
  \/ LengthVerdict(Joined, call.dtype) # NoError
  \/ ScanEnd(Joined, 0) = -1

\* the pre-scan passes: no such finding, and the helper's cursor has room for
\* the length prefixes it reads
PreScanPasses ==
  /\ ~PreScanFails
  /\ call.pre.cur + INT_LENGTH * Cardinality(FrameStarts(Joined, 0)) <= max_packet_bytes_

LastStart(data) ==
  CHOOSE s \in FrameStarts(data, 0) : \A t \in FrameStarts(data, 0) : t <= s

\* C15: the combined stream passes the pre-scan.  Ending on a frame boundary:
\* the residual is empty and, unless a message fails, every frame is decoded.
\* Ending in an incomplete frame after complete ones: the residual is that
\* frame's bytes and exactly the complete frames are decoded.  No complete
\* frame: no callback, the residual is the combined stream.
C15_ResidualIsTrailingFrame ==
  (IsCall /\ PreScanPasses) =>
    \A end \in {ScanEnd(Joined, 0)} :
    \A last \in {LastStart(Joined)} :
      /\ end = Len(Joined) =>
           /\ Residual = <<>>
           /\ call.err = NoError => SumBytes(call.cbs) = Len(Joined)
      /\ (end > Len(Joined) /\ last > 0) =>
           /\ Residual = SubSeq(Joined, last + 1, Len(Joined))
           /\ SumBytes(call.cbs) <= last
           /\ call.err = NoError =>
                /\ SumBytes(call.cbs) = last
                /\ Decoded = Cardinality(FrameStarts(Joined, 0)) - 1
      /\ (end > Len(Joined) /\ last = 0) =>
           /\ call.cbs = <<>>
           /\ Residual = Joined

\* two ping requests in chunks of 6 and 18 bytes: two onPing, empty residual
C15_Witness ==
  /\ call.dtype = READ
  /\ call.pre.zk = SubSeq(PingRequest, 1, 6)
  /\ Joined = PingRequest \o PingRequest
  /\ call.cbs = <<<<"onPing">>, <<"onRequestBytes", 12>>,
                  <<"onPing">>, <<"onRequestBytes", 12>>>>
  /\ zk_filter_read_buffer_ = <<>>

\* C16: a pre-scan that finds a length out of bounds or a fragment of a
\* length prefix ends the call with onDecodeError alone, whatever complete
\* frames precede the finding; the table is unchanged and the direction's
\* residual is empty, the bytes buffered before included.
C16_PreScanFailureDropsAll ==
  (IsCall /\ PreScanFails) =>
    /\ call.cbs = <<<<"onDecodeError">>>>
    /\ requests_by_xid_ = call.pre.reqs
    /\ Residual = <<>>

\* a complete ping precedes the fragment, and half of the ping was buffered
C16_Witness ==
  /\ call.dtype = READ
  /\ call.pre.zk = SubSeq(PingRequest, 1, 6)
  /\ Len(Joined) > 12
  /\ SubSeq(Joined, 1, 12) = PingRequest
  /\ PreScanFails
  /\ call.cbs = <<<<"onDecodeError">>>>
  /\ zk_filter_read_buffer_ = <<>>

\* C11: watch events at the head of a chunk of responses are each reported
\* by onWatchEvent with their type, state, path, zxid and error, whatever the
\* table holds; a chunk of watch events alone ends without error and leaves
\* the table as it was; no response decode adds, changes or removes the
\* entry at the Watch xid or reports a response for it.
C11_WatchEventNeedsNoRequest ==
  (call.dtype = WRITE /\ PreScanPasses) =>
    \A frames \in {FramesOf(call.input)} :
      /\ \A i \in DOMAIN frames :
           (\A j \in 1..i : XidOf(frames[j]) = XidCodes.WatchXid)
           => /\ i <= Decoded
              /\ call.cbs[2 * i - 1]
                   = <<"onWatchEvent", BE32(frames[i], 20), BE32(frames[i], 24),
                       SubSeq(frames[i], 33, 32 + BE32(frames[i], 28)),
                       <<BE32(frames[i], 8), BE32(frames[i], 12)>>, BE32(frames[i], 16)>>
              /\ call.cbs[2 * i] = <<"onResponseBytes", Len(frames[i])>>
      /\ (\A j \in DOMAIN frames : XidOf(frames[j]) = XidCodes.WatchXid)
         => /\ call.err = NoError
            /\ requests_by_xid_ = call.pre.reqs
      /\ ResponsesFor(XidCodes.WatchXid) = {}
      /\ call.err # XidNotFound
           \/ XidOf(frames[Decoded + 1]) # XidCodes.WatchXid
      /\ (XidCodes.WatchXid \in DOMAIN requests_by_xid_)
           = (XidCodes.WatchXid \in DOMAIN call.pre.reqs)

\* a watch event is reported although nothing was ever requested
C11_Witness ==
  /\ call.dtype = WRITE
  /\ call.pre.reqs = <<>>
  /\ call.input = WatchNotice
  /\ call.cbs = <<<<"onWatchEvent", 1, 3, <<97>>, <<0, 1>>, 0>>,
                  <<"onResponseBytes", Len(WatchNotice)>>>>
  /\ requests_by_xid_ = <<>>

\* C14: a response with the Ping, Auth or SetWatches xid whose request is
\* pending is reported by onResponse and accounted with all its L + 4 bytes,
\* so the decoder goes on at the next frame.
C14_ControlResponseSkipsBody ==
  (/\ call.dtype = WRITE
   /\ PreScanPasses
   /\ XidOf(call.input) \in {XidCodes.PingXid, XidCodes.AuthXid, XidCodes.SetWatchesXid}
   /\ XidOf(call.input) \in DOMAIN call.pre.reqs)
  => /\ Len(call.cbs) >= 2
     /\ call.cbs[1][1] = "onResponse"
     /\ call.cbs[2] = <<"onResponseBytes", 4 + BE32(call.input, 0)>>

\* C17: once a response is decoded, no entry is left in the table under its
\* xid.
C17_ResponseConsumesEntry ==
  call.dtype = WRITE =>
    \A frames \in {FramesOf(call.input)} :
    \A i \in 1..Decoded : XidOf(frames[i]) \notin DOMAIN requests_by_xid_

HasPrefix(data, prefix) ==
  Len(data) >= Len(prefix) /\ SubSeq(data, 1, Len(prefix)) = prefix

\* k pings decoded one after the other
RECURSIVE PingCallbacks(_)
PingCallbacks(k) ==
  IF k = 0 THEN <<>>
  ELSE <<<<"onPing">>, <<"onRequestBytes", Len(PingRequest)>>>> \o PingCallbacks(k - 1)

\* C12: a Multi request with a Check, a Create and a closing header, after any
\* number of pings, emits onCheckRequest, onCreateRequest, then onMultiRequest
\* once, and is recorded once under its xid with opcode Multi; one whose
\* second header has done = false and an unknown nested opcode emits the
\* Check's callback and then onDecodeError, no onMultiRequest, and records
\* nothing.
C12_MultiRequest ==
  (call.dtype = READ /\ PreScanPasses) =>
    \A k \in 0..MaxFrames :
      /\ HasPrefix(Joined, Repeat(PingRequest, k) \o CheckCreateMulti)
         => /\ HasPrefix(call.cbs,
                 PingCallbacks(k)
                 \o <<<<"onCheckRequest", <<>>, 1>>,
                      <<"onCreateRequest", <<>>, 2, OpCodes.Create>>,
                      <<"onMultiRequest">>,
                      <<"onRequestBytes", Len(CheckCreateMulti)>>>>)
            /\ Count(call.cbs, "onMultiRequest") = 1
            /\ 1 \in DOMAIN requests_by_xid_
            /\ requests_by_xid_[1] = [opcode |-> OpCodes.Multi, start_time |-> call.pre.now]
            /\ DOMAIN requests_by_xid_ \subseteq
                 DOMAIN call.pre.reqs \cup {1, XidCodes.PingXid}
      /\ HasPrefix(Joined, Repeat(PingRequest, k) \o BadNestedMulti)
         => /\ call.cbs = PingCallbacks(k)
                            \o <<<<"onCheckRequest", <<>>, 1>>, <<"onDecodeError">>>>
            /\ call.err = UnknownNested
            /\ (1 \in DOMAIN requests_by_xid_) = (1 \in DOMAIN call.pre.reqs)
            /\ 1 \in DOMAIN requests_by_xid_ => requests_by_xid_[1] = call.pre.reqs[1]

\* the Check + Create Multi is decoded after a ping and recorded
C12_Witness ==
  /\ call.dtype = READ
  /\ call.input = PingRequest \o CheckCreateMulti
  /\ Len(call.cbs) = 6
  /\ call.cbs[3][1] = "onCheckRequest"
  /\ call.cbs[4][1] = "onCreateRequest"
  /\ call.cbs[5] = <<"onMultiRequest">>
  /\ requests_by_xid_[1].opcode = OpCodes.Multi

\* the combined stream starts with k copies of the frame pad, all decoded,
\* followed by a frame with the Connect xid
ConnectAfter(k, pad) ==
  /\ HasPrefix(Joined, Repeat(pad, k))
  /\ Len(Joined) >= k * Len(pad) + 8
  /\ BE32(Joined, k * Len(pad) + 4) = XidCodes.ConnectXid
  /\ Len(call.cbs) > 2 * k
  /\ \A i \in 1..k : call.cbs[2 * i][1] \in BytesCallbacks

\* C13: a Connect request, alone or after decoded pings, emits onConnect and
\* is recorded under xid 0 as {Connect, time of the call}.  A response with
\* xid 0 and room for its fixed fields, while xid 0 is pending, emits one
\* onConnectResponse with protocol version 0, the timeout read from the four
\* bytes after the xid and the latency since the request; no onResponse is
\* emitted for xid 0, and xid 0 leaves the table.  With xid 0 not pending the
\* response is a decode error ("xid not found").
C13_ConnectHandshake ==
  (IsCall /\ PreScanPasses) =>
    /\ \A k \in 0..MaxFrames :
         (/\ call.dtype = READ
          /\ ConnectAfter(k, PingRequest)
          /\ BE32(Joined, k * Len(PingRequest)) >= ConnectLen)
         => /\ call.cbs[2 * k + 1][1] = "onConnect"
            /\ Len(call.cbs) >= 2 * k + 2
            /\ call.cbs[2 * k + 2][1] = "onRequestBytes"
            /\ XidCodes.ConnectXid \in DOMAIN requests_by_xid_
            /\ requests_by_xid_[XidCodes.ConnectXid]
                 = [opcode |-> OpCodes.Connect, start_time |-> call.pre.now]
    /\ \A k \in 0..MaxFrames :
       \A s \in {k * Len(Response(XidCodes.PingXid, 1, 0, <<>>))} :
         (/\ call.dtype = WRITE
          /\ ConnectAfter(k, Response(XidCodes.PingXid, 1, 0, <<>>)))
         => IF XidCodes.ConnectXid \in DOMAIN call.pre.reqs
            THEN BE32(Joined, s) >= PROTOCOL_VERSION_LENGTH + TIMEOUT_LENGTH
                                      + SESSION_LENGTH + INT_LENGTH
                 => /\ call.cbs[2 * k + 1]
                         = <<"onConnectResponse", 0, BE32(Joined, s + 8),
                             call.cbs[2 * k + 1][4],
                             call.pre.now - call.pre.reqs[XidCodes.ConnectXid].start_time>>
                    /\ Count(call.cbs, "onConnectResponse") = 1
                    /\ \A i \in DOMAIN call.cbs :
                         call.cbs[i][1] = "onResponse" => call.cbs[i][3] # XidCodes.ConnectXid
                    /\ XidCodes.ConnectXid \notin DOMAIN requests_by_xid_
            ELSE /\ call.cbs[2 * k + 1] = <<"onDecodeError">>
                 /\ call.err = XidNotFound
                 /\ Len(call.cbs) = 2 * k + 1
                 /\ Count(call.cbs, "onConnectResponse") = 0

\* a connect response answers the connect request sent one tick earlier
C13_Witness ==
  /\ call.dtype = WRITE
  /\ call.input = ConnectResponse(30, <<>>, <<>>)
  /\ XidCodes.ConnectXid \in DOMAIN call.pre.reqs
  /\ call.pre.reqs[XidCodes.ConnectXid] = [opcode |-> OpCodes.Connect, start_time |-> 0]
  /\ call.cbs = <<<<"onConnectResponse", 0, 30, FALSE, 1>>, <<"onResponseBytes", 24>>>>
  /\ XidCodes.ConnectXid \notin DOMAIN requests_by_xid_

\* the combined stream holds, after k pings, a GetAcl request whose path
\* string, as long as its length field says, lies inside the buffer
GetAclAfter(k) ==
  \E s \in {k * Len(PingRequest)} :
    /\ call.dtype = READ
    /\ PreScanPasses
    /\ HasPrefix(Joined, Repeat(PingRequest, k))
    /\ Len(Joined) >= s + 16
    /\ BE32(Joined, s) >= XID_LENGTH + OPCODE_LENGTH + INT_LENGTH
    /\ BE32(Joined, s + 4) > 0
    /\ BE32(Joined, s + 8) = OpCodes.GetAcl
    /\ BE32(Joined, s + 12) > 0
    /\ Len(Joined) >= s + 16 + BE32(Joined, s + 12)
\* the path goes beyond the end of the frame that holds it
PathOverruns(k) ==
  \E s \in {k * Len(PingRequest)} : INT_LENGTH + BE32(Joined, s + 12) > BE32(Joined, s) - 8

SemanticName(frame, dtype) ==
  IF dtype = WRITE THEN "onResponse"
  ELSE IF XidOf(frame) = XidCodes.PingXid THEN "onPing"
  ELSE IF OpcodeOf(frame) = OpCodes.Close THEN "onCloseRequest"
  ELSE IF OpcodeOf(frame) = OpCodes.GetData THEN "onGetDataRequest"
  ELSE "none"

\* C19: in a call on well-formed frames, every bytes callback is the one of
\* the call's direction and follows a semantic callback; the j-th decoded
\* message is the j-th frame: its semantic callback comes first, then one
\* bytes callback with the length of the frame, then the next message; a
\* call without error decodes every frame and its bytes callbacks sum to the
\* bytes taken from the stream; a failing call adds only onDecodeError.
C19_BytesCallbackPerMessage ==
  IsCall =>
    \A frames \in {FramesOf(Joined)} :
      /\ \A i \in DOMAIN call.cbs :
           call.cbs[i][1] \in BytesCallbacks
           => /\ call.cbs[i][1] = onBytes(call.dtype, 0)[1]
              /\ i > 1
              /\ call.cbs[i - 1][1] \notin BytesCallbacks \cup {"onDecodeError"}
      /\ Decoded <= Len(frames)
      /\ \A j \in 1..Decoded :
           /\ call.cbs[2 * j - 1][1] = SemanticName(frames[j], call.dtype)
           /\ call.dtype = WRITE => call.cbs[2 * j - 1][3] = XidOf(frames[j])
           /\ call.cbs[2 * j] = onBytes(call.dtype, Len(frames[j]))
      /\ call.err = NoError
         => /\ Decoded = Len(frames)
            /\ Len(call.cbs) = 2 * Decoded
            /\ SumBytes(call.cbs) = Len(Joined) - Len(Residual)
      /\ call.err # NoError
         => call.cbs = SubSeq(call.cbs, 1, 2 * Decoded) \o <<<<"onDecodeError">>>>

\* two different requests in one chunk, each followed by its byte count
C19_Witness ==
  /\ call.dtype = READ
  /\ call.input = PingRequest \o GetDataRequest(1, <<97>>, TRUE)
  /\ call.cbs = <<<<"onPing">>, <<"onRequestBytes", 12>>,
                  <<"onGetDataRequest", <<97>>, TRUE>>, <<"onRequestBytes", 18>>>>

\* C20: after onData the write residual is what it was before the call and
\* every xid that was pending is still in the table; after onWrite the read
\* residual is what it was and every entry of the table was there, with the
\* same content, before the call.
C20_DirectionsDisjoint ==
  /\ call.dtype = READ
     => /\ zk_filter_write_buffer_ = call.pre.other
        /\ DOMAIN call.pre.reqs \subseteq DOMAIN requests_by_xid_
  /\ call.dtype = WRITE
     => /\ zk_filter_read_buffer_ = call.pre.other
        /\ \A x \in DOMAIN requests_by_xid_ :
             x \in DOMAIN call.pre.reqs /\ requests_by_xid_[x] = call.pre.reqs[x]

\* a malformed response is rejected while half a request is buffered and a
\* ping is pending: both are still there
C20_Witness ==
  /\ call.dtype = WRITE
  /\ call.err # NoError
  /\ call.pre.other = SubSeq(PingRequest, 1, 6)
  /\ zk_filter_read_buffer_ = SubSeq(PingRequest, 1, 6)
  /\ XidCodes.PingXid \in DOMAIN requests_by_xid_

\* the call is an onWrite whose combined stream passes the pre-scan and
\* starts with a complete frame
FirstResponseComplete ==
  /\ call.dtype = WRITE
  /\ PreScanPasses
  /\ Len(Joined) >= INT_LENGTH + XID_LENGTH
  /\ Len(Joined) >= INT_LENGTH + BE32(Joined, 0)

\* C21: when the first response of a call carries a pending xid other than
\* the Watch xid, that xid is out of the table after the call, whether or not
\* the response decoded; if it failed, the call reports onDecodeError alone
\* and the table is the old one without that xid.  A response whose xid is
\* not pending, such as one that follows a failed response with the same
\* xid, fails with "xid not found".
C21_EntryRemovedBeforeParse ==
  FirstResponseComplete =>
    \A x \in {XidOf(Joined)} :
      x # XidCodes.WatchXid =>
        IF x \in DOMAIN call.pre.reqs
        THEN /\ x \notin DOMAIN requests_by_xid_
             /\ Decoded = 0
                => /\ call.cbs = <<<<"onDecodeError">>>>
                   /\ call.err \notin {NoError, XidNotFound}
                   /\ requests_by_xid_
                        = [y \in DOMAIN call.pre.reqs \ {x} |-> call.pre.reqs[y]]
        ELSE /\ call.cbs = <<<<"onDecodeError">>>>
             /\ call.err = XidNotFound
             /\ requests_by_xid_ = call.pre.reqs

\* a connect was pending when the server wrote a short connect response and
\* a well-formed one; the first chunk failed as too small, the second, the
\* well-formed response, fails with "xid not found"
C21_Witness ==
  /\ net.dtype = WRITE
  /\ net.stream = ShortConnectResponse \o ConnectResponse(30, <<>>, <<>>)
  /\ XidCodes.ConnectXid \in DOMAIN net.pre.reqs
  /\ net.acc = <<<<"onDecodeError">>, <<"onDecodeError">>>>
  /\ call.dtype = WRITE
  /\ call.pre.zk = <<>>
  /\ call.input = ConnectResponse(30, <<>>, <<>>)
  /\ XidCodes.ConnectXid \notin DOMAIN call.pre.reqs
  /\ call.err = XidNotFound

\* the loops of the decoder
Loops == {"decodeAndBufferHelper", "decode", "parseMultiRequest", "skipAcls", "skipStrings"}
\* the iterations of a loop during the last call
Iterations(loop) == {i \in DOMAIN call.trail : call.trail[i][1] = loop}

\* C22: every call returns.  The iterations of each loop start at strictly
\* increasing offsets; the pre-scan and the decode loop iterate only below
\* the end of the data; an iteration of any loop that starts at or beyond the
\* end of the data is the last one of the call, which then ends in a decode
\* error.  So the iterations of a call number at most one per loop and byte,
\* plus one.  A call that went through Multi headers without error invoked
\* onMultiRequest (a done header was read).
C22_CallsTerminate ==
  IsCall =>
    /\ call.ret = Continue
    /\ \A i \in DOMAIN call.trail : call.trail[i][1] \in Loops
    /\ \A loop \in Loops :
       \A i \in Iterations(loop) :
       \A j \in Iterations(loop) :
         i < j => call.trail[i][2] < call.trail[j][2]
    /\ \A i \in Iterations("decodeAndBufferHelper") \cup Iterations("decode") :
         call.trail[i][2] < Len(Joined)
    /\ \A i \in DOMAIN call.trail :
         call.trail[i][2] >= Len(Joined)
         => /\ i = Len(call.trail)
            /\ call.err # NoError
    /\ Len(call.trail) <= Cardinality(Loops) * Len(Joined) + 1
    /\ call.err # NoError => LastCallback = <<"onDecodeError">>
    /\ (call.err = NoError /\ Iterations("parseMultiRequest") # {})
       => Count(call.cbs, "onMultiRequest") >= 1

\* a Multi request without a closing header: the loop over the headers reads
\* the one header there is, then starts a second iteration at the end of the
\* data and ends in a decode error
C22_Witness ==
  /\ call.dtype = READ
  /\ call.input = OpenMulti
  /\ Cardinality(Iterations("parseMultiRequest")) = 2
  /\ call.trail[Len(call.trail)] = <<"parseMultiRequest", Len(OpenMulti)>>
  /\ call.err = Underflow
  /\ call.cbs = <<<<"onCheckRequest", <<>>, 1>>, <<"onDecodeError">>>>

====
